---- MODULE Spec2Model ----
(***************************************************************************)
(* ValidityPretrainAgent (src/agents/agents.py, lines 725-884): the trace  *)
(* recorder that stores one episode of states, actions, rewards and        *)
(* terminals, runs _compute_action_validity on a terminal observe and      *)
(* writes the accumulated records as a trace file.                         *)
(*                                                                         *)
(* Arrays of shape (1, T) are sequences of length T: the code's            *)
(* buffer[0, i] is buffer[i + 1] here.  A stored element is a cell         *)
(* [v |-> value, g |-> tag]: v is the number the code stores; g tells when *)
(* it was written: Current since the last reset(), Old before it, Never    *)
(* for memory no call has written.  The tag is history only: no operation  *)
(* of the program reads it.                                                *)
(***************************************************************************)
EXTENDS Integers, Sequences, FiniteSets, TLC

VARIABLES
    max_timesteps,      \* self.max_timesteps
    index,              \* self.index, the cursor
    episodes,           \* self.episodes
    agent,              \* self.agent, the scripted driving policy
    terminal_buffers,   \* self.terminal_buffers
    reward_buffers,     \* self.reward_buffers
    states_buffers,     \* self.states_buffers
    actions_buffers,    \* self.actions_buffers
    record_states,      \* self.record_states
    record_actions,     \* self.record_actions
    record_terminal,    \* self.record_terminal
    record_reward,      \* self.record_reward
    traces_dir_exists,  \* os.path.isdir(self.traces_dir)
    traces,             \* the episode counters in the names of the files written
    control,            \* KeyboardAgent: self.control
    steer_cache,        \* KeyboardAgent: self._steer_cache
    decay,              \* the decay dictionary the caller passes to Agents.ppo8 / ppo9
    last                \* history: the last call, its outcome and its output

vars == <<max_timesteps, index, episodes, agent, terminal_buffers, reward_buffers,
          states_buffers, actions_buffers, record_states, record_actions,
          record_terminal, record_reward, traces_dir_exists, traces,
          control, steer_cache, decay, last>>

(* the fields of the trace recorders: the ValidityPretrainAgent classes and *)
(* the Pretraining agents                                                   *)
recorder_vars == <<max_timesteps, index, episodes, agent, terminal_buffers,
                   reward_buffers, states_buffers, actions_buffers, record_states,
                   record_actions, record_terminal, record_reward,
                   traces_dir_exists, traces>>

(* the objects beside the recorder: a KeyboardAgent and the argument of the *)
(* factories                                                                *)
other_objects == <<control, steer_cache, decay>>

-----------------------------------------------------------------------------
(* Bounds of the model *)

MaxTimesteps == 2
MaxEpisodes == 2
MaxLen == 5

(* Constants of the program *)

reward_threshold == 15
r_max == 150
r_min == -2000

(* Python's None, for an array, for a mapping or record list, for an object *)
NoArray == <<>>
NoDict == [kind |-> "None"]
NoObject == "None"

StatesSpec == {"obs"}
ActionsSpec == {"control", "validity"}

(* What the environment and the scripted policy can supply in one tick *)
StateInputs == {[obs |-> 1]}
PolicyActions == {[control |-> 2, validity |-> 2]}
RewardInputs == {3, 40}
(* What the file system does to write_trace: "OSError" fails the first call *)
(* that writes, os.makedirs when the directory is absent, else np.savez     *)
IOOutcomes == {"ok", "OSError"}

(* What np.ndarray(shape=...) can hand out: the memory is not initialised, so  *)
(* its content is whatever the allocator returns: zeroed pages, junk, or the   *)
(* bytes of the array that was just released.                                  *)
UninitOutcomes == {"zeros", "junk", "stale"}
Junk == 9

Never == "never"
Old == "old"
Current == "current"

Cell(v, g) == [v |-> v, g |-> g]

(* a released array as the next reset() may find it in memory *)
Aged(cells) == [k \in DOMAIN cells |-> Cell(cells[k].v, IF cells[k].g = Never THEN Never ELSE Old)]

Values(cells) == [k \in DOMAIN cells |-> cells[k].v]

RECURSIVE SumSeq(_)
SumSeq(s) == IF s = <<>> THEN 0 ELSE Head(s) + SumSeq(Tail(s))

RECURSIVE Concatenate(_)
Concatenate(arrays) ==
    IF arrays = <<>> THEN <<>> ELSE Head(arrays) \o Concatenate(Tail(arrays))

Min(a, b) == IF a < b THEN a ELSE b
Max(a, b) == IF a > b THEN a ELSE b

-----------------------------------------------------------------------------
(* The outcome of a call: its name, the exception it raised ("ok" for none), *)
(* the arguments the claims refer to, the trace file it wrote and the        *)
(* buffers as they were when the validity computation started.               *)
Outcome(op, err) ==
    [op |-> op, err |-> err, terminal |-> FALSE, analyzed |-> FALSE,
     trace |-> NoDict, pre_reward |-> NoArray, pre_actions |-> NoDict]

-----------------------------------------------------------------------------
(* __init__ *)
Init ==
    /\ max_timesteps \in 1..MaxTimesteps
    /\ index = 0
    /\ episodes = 0
    /\ agent = NoObject
    /\ terminal_buffers = NoArray
    /\ reward_buffers = NoArray
    /\ states_buffers = NoDict
    /\ actions_buffers = NoDict
    /\ record_states = NoDict
    /\ record_actions = NoDict
    /\ record_terminal = NoDict
    /\ record_reward = NoDict
    /\ traces_dir_exists = FALSE
    /\ traces = <<>>
    /\ last = Outcome("init", "ok")
    /\ control = NoObject
    /\ steer_cache = 0
    /\ decay = NoDict

(* np.ndarray with one slot more than max_timesteps *)
UninitOneMore(old, u) ==
    [k \in 1..(max_timesteps + 1) |-> Cell(IF u = "zeros" THEN 0 ELSE Junk, Never)]

(* np.ndarray(shape=(1, max_timesteps)): uninitialised memory *)
Uninit(old, u) ==
    IF u = "stale" /\ old # NoArray THEN Aged(old)
    ELSE [k \in 1..max_timesteps |-> Cell(IF u = "zeros" THEN 0 ELSE Junk, Never)]

(* init_records *)
EmptyList == [kind |-> "list", items |-> <<>>]

(* reset zeroing the episode counter with the cursor *)
ResetClearsEpisodes(u) ==
    /\ terminal_buffers' = Uninit(terminal_buffers, u)
    /\ reward_buffers' = Uninit(reward_buffers, u)
    /\ states_buffers' =
          [name \in StatesSpec |->
              Uninit(IF states_buffers = NoDict THEN NoArray ELSE states_buffers[name], u)]
    /\ actions_buffers' =
          [name \in ActionsSpec |->
              Uninit(IF actions_buffers = NoDict THEN NoArray ELSE actions_buffers[name], u)]
    /\ record_states' = [name \in StatesSpec |-> EmptyList]
    /\ record_actions' = [name \in ActionsSpec |-> EmptyList]
    /\ record_terminal' = EmptyList
    /\ record_reward' = EmptyList
    /\ index' = 0
    /\ agent' = "BehaviorAgent"
    /\ last' = Outcome("reset", "ok")
    /\ episodes' = 0
    /\ UNCHANGED <<other_objects, max_timesteps, traces_dir_exists, traces>>

(* reset *)
Reset(u) ==
    /\ terminal_buffers' = Uninit(terminal_buffers, u)
    /\ reward_buffers' = Uninit(reward_buffers, u)
    /\ states_buffers' =
          [name \in StatesSpec |->
              Uninit(IF states_buffers = NoDict THEN NoArray ELSE states_buffers[name], u)]
    /\ actions_buffers' =
          [name \in ActionsSpec |->
              Uninit(IF actions_buffers = NoDict THEN NoArray ELSE actions_buffers[name], u)]
    /\ record_states' = [name \in StatesSpec |-> EmptyList]
    /\ record_actions' = [name \in ActionsSpec |-> EmptyList]
    /\ record_terminal' = EmptyList
    /\ record_reward' = EmptyList
    /\ index' = 0
    /\ agent' = "BehaviorAgent"
    /\ last' = Outcome("reset", "ok")
    /\ UNCHANGED <<other_objects, max_timesteps, episodes, traces_dir_exists, traces>>

(* a call that raises before it changes anything *)
Raise(op, err) ==
    /\ last' = Outcome(op, err)
    /\ UNCHANGED <<other_objects, max_timesteps, index, episodes, agent, terminal_buffers,
                   reward_buffers, states_buffers, actions_buffers, record_states,
                   record_actions, record_terminal, record_reward,
                   traces_dir_exists, traces>>

(* act storing at self.index % self.max_timesteps: the buffer as a ring *)
ActWraps(states, actions) ==
    IF agent = NoObject THEN Raise("act", "AttributeError")
    ELSE
        LET slot == (index % max_timesteps) + 1
        IN  /\ states_buffers' =
                  [name \in StatesSpec |->
                      [states_buffers[name] EXCEPT ![slot] = Cell(states[name], Current)]]
            /\ actions_buffers' =
                  [name \in ActionsSpec |->
                      [actions_buffers[name] EXCEPT ![slot] = Cell(actions[name], Current)]]
            /\ last' = Outcome("act", "ok")
            /\ UNCHANGED <<other_objects, max_timesteps, index, episodes, agent, terminal_buffers,
                           reward_buffers, record_states, record_actions,
                           record_terminal, record_reward, traces_dir_exists, traces>>

(* the order in which act visits self.states_spec.keys() and                *)
(* self.actions_spec.keys()                                                 *)
StatesOrder == <<"obs">>
ActionsOrder == <<"control", "validity">>

(* the keys a loop "for name in order: buffer[name][0, index] =             *)
(* mapping[name]" stores before mapping[name] raises KeyError               *)
StoredKeys(order, mapping) ==
    {order[k] : k \in {k \in 1..Len(order) :
                          \A m \in 1..k : order[m] \in DOMAIN mapping}}

HasKeys(order, mapping) == \A k \in 1..Len(order) : order[k] \in DOMAIN mapping

(* act: states[name] is read before the store, so a missing first key       *)
(* raises KeyError before the cursor is used; the stores made before a      *)
(* later missing key stay                                                   *)
Act(states, actions) ==
    IF agent = NoObject THEN Raise("act", "AttributeError")
    ELSE IF StatesOrder[1] \notin DOMAIN states THEN Raise("act", "KeyError")
    ELSE IF index >= max_timesteps THEN Raise("act", "IndexError")
    ELSE
        /\ states_buffers' =
              [name \in StatesSpec |->
                  IF name \in StoredKeys(StatesOrder, states)
                  THEN [states_buffers[name] EXCEPT ![index + 1] = Cell(states[name], Current)]
                  ELSE states_buffers[name]]
        /\ actions_buffers' =
              [name \in ActionsSpec |->
                  IF HasKeys(StatesOrder, states) /\ name \in StoredKeys(ActionsOrder, actions)
                  THEN [actions_buffers[name] EXCEPT ![index + 1] = Cell(actions[name], Current)]
                  ELSE actions_buffers[name]]
        /\ last' = Outcome("act", IF HasKeys(StatesOrder, states) /\ HasKeys(ActionsOrder, actions)
                                  THEN "ok" ELSE "KeyError")
        /\ UNCHANGED <<other_objects, max_timesteps, index, episodes, agent, terminal_buffers,
                       reward_buffers, record_states, record_actions,
                       record_terminal, record_reward, traces_dir_exists, traces>>

-----------------------------------------------------------------------------
(* env.aggregate_reward(rewards, r_max=150.0, r_min=-2000): the sum of the  *)
(* rewards clamped to [r_min, r_max]                                        *)
aggregate_reward(rewards) == Min(r_max, Max(r_min, SumSeq(rewards)))

(* len(control_buffer): the buffer has shape (1, max_timesteps), and len()  *)
(* of an array is the size of its first axis                                *)
LenControlBuffer(control_buffer) == 1

(* _compute_action_validity, the inner loop "for j in range(i, n - 1)" from *)
(* j on: brk says whether it left by break, j is the j of the break         *)
RECURSIVE ScanFrom(_, _, _, _, _, _)
ScanFrom(j, n, control_buffer, rewbuf, validity, rewards) ==
    IF j >= n - 1
    THEN [brk |-> FALSE, j |-> j, validity |-> validity, rewards |-> rewards]
    ELSE IF control_buffer[j + 1].v = control_buffer[j + 2].v
    THEN ScanFrom(j + 1, n, control_buffer, rewbuf, validity + 1,
                  Append(rewards, rewbuf[j + 1].v))
    ELSE [brk |-> TRUE, j |-> j, validity |-> validity, rewards |-> rewards]

(* _compute_action_validity, the outer loop "for i in range(n)" from i on;  *)
(* g tags what it writes                                                    *)
RECURSIVE ValidityFrom(_, _, _, _, _)
ValidityFrom(i, n, actbuf, rewbuf, g) ==
    IF i >= n THEN [actions |-> actbuf, reward |-> rewbuf]
    ELSE
        LET scan == ScanFrom(i, n, actbuf["control"], rewbuf, 1, <<>>)
            aggregated == Cell(aggregate_reward(scan.rewards), g)
            rewbuf2 == IF scan.brk
                       THEN [k \in DOMAIN rewbuf |->
                                IF i <= k - 1 /\ k - 1 < scan.j THEN aggregated
                                ELSE rewbuf[k]]
                       ELSE rewbuf
            actbuf2 == [actbuf EXCEPT !["validity"][i + 1] = Cell(scan.validity, g)]
        IN  ValidityFrom(i + 1, n, actbuf2, rewbuf2, g)

(* _compute_action_validity looping over the timesteps and aggregating a   *)
(* run that reaches the end of the episode as well                          *)
RECURSIVE ValidityTailFrom(_, _, _, _, _)
ValidityTailFrom(i, n, actbuf, rewbuf, g) ==
    IF i >= n THEN [actions |-> actbuf, reward |-> rewbuf]
    ELSE
        LET scan == ScanFrom(i, n, actbuf["control"], rewbuf, 1, <<>>)
            aggregated == Cell(aggregate_reward(scan.rewards), g)
            rewbuf2 == [k \in DOMAIN rewbuf |->
                           IF i <= k - 1 /\ (k - 1 < scan.j \/ ~scan.brk) THEN aggregated
                           ELSE rewbuf[k]]
            actbuf2 == [actbuf EXCEPT !["validity"][i + 1] = Cell(scan.validity, g)]
        IN  ValidityTailFrom(i + 1, n, actbuf2, rewbuf2, g)

ComputeActionValidityTail(actbuf, rewbuf, g) ==
    ValidityTailFrom(0, Len(actbuf["control"]), actbuf, rewbuf, g)

(* _compute_action_validity *)
ComputeActionValidity(actbuf, rewbuf, g) ==
    ValidityFrom(0, LenControlBuffer(actbuf["control"]), actbuf, rewbuf, g)

-----------------------------------------------------------------------------
(* write_trace, line 810: sum(self.record_reward) <                         *)
(* self.reward_threshold * len(self.record_reward).  On a list of arrays    *)
(* sum() adds the arrays element by element and the comparison yields an    *)
(* array, whose truth value is an error unless it has one element.          *)
GateOutcome(rr) ==
    IF rr.kind = "array"
    THEN IF SumSeq(Values(rr.data)) < reward_threshold * Len(rr.data)
         THEN "reject" ELSE "accept"
    ELSE IF rr.items = <<>>
    THEN IF 0 < reward_threshold * 0 THEN "reject" ELSE "accept"
    ELSE IF Len(rr.items[1]) > 1 THEN "ValueError"
    ELSE IF SumSeq([k \in DOMAIN rr.items |-> rr.items[k][1].v])
                < reward_threshold * Len(rr.items)
         THEN "reject" ELSE "accept"

(* buffer[0, :index] *)
Slice(buffer, n) == SubSeq(buffer, 1, Min(n, Len(buffer)))

(* write_trace, line 808: index = self.max_timesteps *)
TraceIndex == max_timesteps

(* record.append(np.array(buffer[0, :index])) *)
Appended(record, buffer) ==
    [kind |-> "list", items |-> Append(record.items, Slice(buffer, TraceIndex))]

(* np.concatenate(record) *)
Concatenated(record) == [kind |-> "array", data |-> Concatenate(record.items)]

(* write_trace on the buffers sb, ab, tb, rb with the episode counter eps;  *)
(* io is what the file system does.  The result holds the exception raised  *)
(* ("ok" for none), the records and the directory as the call leaves them   *)
(* and the file written (NoDict for none).                                  *)
WriteTraceOn(sb, ab, tb, rb, eps, io) ==
    LET unchanged == [err |-> "ok", record_states |-> record_states,
                      record_actions |-> record_actions,
                      record_terminal |-> record_terminal,
                      record_reward |-> record_reward,
                      dir |-> traces_dir_exists, trace |-> NoDict]
        gate == GateOutcome(record_reward)
        rs1 == [name \in StatesSpec |-> Appended(record_states[name], sb[name])]
        ra1 == [name \in ActionsSpec |-> Appended(record_actions[name], ab[name])]
        rt1 == Appended(record_terminal, tb)
        rr1 == Appended(record_reward, rb)
        appended == [unchanged EXCEPT !.record_states = rs1, !.record_actions = ra1,
                                      !.record_terminal = rt1, !.record_reward = rr1]
        rs2 == [name \in StatesSpec |-> Concatenated(rs1[name])]
        ra2 == [name \in ActionsSpec |-> Concatenated(ra1[name])]
        rt2 == Concatenated(rt1)
        rr2 == Concatenated(rr1)
        concatenated == [unchanged EXCEPT !.record_states = rs2, !.record_actions = ra2,
                                          !.record_terminal = rt2, !.record_reward = rr2,
                                          !.dir = TRUE]
        file == [kind |-> "trace", name |-> eps,
                 states |-> [name \in StatesSpec |-> rs2[name].data],
                 actions |-> [name \in ActionsSpec |-> ra2[name].data],
                 terminal |-> rt2.data, reward |-> rr2.data]
    IN  IF gate = "ValueError" THEN [unchanged EXCEPT !.err = "ValueError"]
        ELSE IF gate = "reject" THEN unchanged
        ELSE IF \E name \in StatesSpec : record_states[name].kind # "list"
        THEN [unchanged EXCEPT !.err = "AttributeError"]
        ELSE IF ~traces_dir_exists /\ io = "OSError"
        THEN [appended EXCEPT !.err = "OSError"]
        ELSE IF io = "OSError"
        THEN [concatenated EXCEPT !.err = "OSError"]
        ELSE [concatenated EXCEPT !.trace = file]

(* write_trace called before _compute_action_validity: it reads the action *)
(* buffers as act left them                                                 *)
WriteTraceUnanalyzed(sb, ab, tb, rb, eps, io) ==
    WriteTraceOn(sb, actions_buffers, tb, rb, eps, io)

(* write_trace saving the records once more when an earlier call has      *)
(* already turned them into arrays                                          *)
WriteTraceAgain(sb, ab, tb, rb, eps, io) ==
    IF record_reward.kind = "array"
    THEN [err |-> "ok", record_states |-> record_states,
          record_actions |-> record_actions, record_terminal |-> record_terminal,
          record_reward |-> record_reward, dir |-> TRUE,
          trace |-> [kind |-> "trace", name |-> eps,
                     states |-> [name \in StatesSpec |-> record_states[name].data],
                     actions |-> [name \in ActionsSpec |-> record_actions[name].data],
                     terminal |-> record_terminal.data, reward |-> record_reward.data]]
    ELSE WriteTraceOn(sb, ab, tb, rb, eps, io)

(* write_trace emptying the records when the gate rejects *)
WriteTraceDropsOnReject(sb, ab, tb, rb, eps, io) ==
    IF GateOutcome(record_reward) = "reject"
    THEN [err |-> "ok",
          record_states |-> [name \in StatesSpec |-> EmptyList],
          record_actions |-> [name \in ActionsSpec |-> EmptyList],
          record_terminal |-> EmptyList, record_reward |-> EmptyList,
          dir |-> traces_dir_exists, trace |-> NoDict]
    ELSE WriteTraceOn(sb, ab, tb, rb, eps, io)

(* observe, line 860: self.write_trace() on the buffers as                  *)
(* _compute_action_validity left them                                       *)
WriteTrace(sb, ab, tb, rb, eps, io) == WriteTraceOn(sb, ab, tb, rb, eps, io)

(* observe, once the store at the cursor is known to succeed *)
ObserveStored(reward, terminal, io) ==
        LET rb1 == [reward_buffers EXCEPT ![index + 1] = Cell(reward, Current)]
            tb1 == [terminal_buffers EXCEPT
                        ![index + 1] = Cell(IF terminal THEN 1 ELSE 0, Current)]
            analysis == ComputeActionValidity(actions_buffers, rb1, Current)
            written == WriteTrace(states_buffers, analysis.actions, tb1,
                                  analysis.reward, episodes + 1, io)
        IN  /\ terminal => episodes < MaxEpisodes
            /\ terminal_buffers' = tb1
            /\ index' = index + 1
            /\ IF ~terminal
               THEN /\ reward_buffers' = rb1
                    /\ last' = Outcome("observe", "ok")
                    /\ UNCHANGED <<episodes, actions_buffers, record_states,
                                   record_actions, record_terminal, record_reward,
                                   traces_dir_exists, traces>>
               ELSE /\ episodes' = episodes + 1
                    /\ reward_buffers' = analysis.reward
                    /\ actions_buffers' = analysis.actions
                    /\ record_states' = written.record_states
                    /\ record_actions' = written.record_actions
                    /\ record_terminal' = written.record_terminal
                    /\ record_reward' = written.record_reward
                    /\ traces_dir_exists' = written.dir
                    /\ traces' = IF written.trace = NoDict THEN traces
                                 ELSE Append(traces, written.trace.name)
                    /\ last' = [Outcome("observe", written.err) EXCEPT
                                    !.terminal = TRUE, !.analyzed = TRUE,
                                    !.trace = written.trace,
                                    !.pre_reward = rb1,
                                    !.pre_actions = actions_buffers]
            /\ UNCHANGED <<other_objects, max_timesteps, agent, states_buffers>>

(* observe with "self.index += 1" moved above the two stores *)
ObserveAdvancesFirst(reward, terminal, io) ==
    IF reward_buffers = NoArray \/ index >= max_timesteps
    THEN /\ index' = index + 1
         /\ last' = Outcome("observe",
                            IF reward_buffers = NoArray THEN "TypeError" ELSE "IndexError")
         /\ UNCHANGED <<other_objects, max_timesteps, episodes, agent, terminal_buffers,
                        reward_buffers, states_buffers, actions_buffers, record_states,
                        record_actions, record_terminal, record_reward,
                        traces_dir_exists, traces>>
    ELSE ObserveStored(reward, terminal, io)

(* observe: the store into self.reward_buffers raises TypeError while the   *)
(* buffer is None and IndexError when the cursor is past its end            *)
Observe(reward, terminal, io) ==
    IF reward_buffers = NoArray THEN Raise("observe", "TypeError")
    ELSE IF index >= max_timesteps THEN Raise("observe", "IndexError")
    ELSE ObserveStored(reward, terminal, io)

(* The calls the environment makes, in any order, on a file system that    *)
(* works                                                                    *)
Next ==
    \/ \E u \in UninitOutcomes : Reset(u)
    \/ \E states \in StateInputs, actions \in PolicyActions : Act(states, actions)
    \/ \E reward \in RewardInputs : Observe(reward, FALSE, "ok")
    \/ \E reward \in RewardInputs : Observe(reward, TRUE, "ok")

Spec == Init /\ [][Next]_vars

(* The same calls on a file system that may fail *)
NextIO ==
    \/ \E u \in UninitOutcomes : Reset(u)
    \/ \E states \in StateInputs, actions \in PolicyActions : Act(states, actions)
    \/ \E reward \in RewardInputs : Observe(reward, FALSE, "ok")
    \/ \E reward \in RewardInputs, io \in IOOutcomes : Observe(reward, TRUE, io)

SpecIO == Init /\ [][NextIO]_vars

-----------------------------------------------------------------------------
(* ValidityPretrainAgentNoSkill.observe with the call of                    *)
(* _compute_action_validity restored                                        *)
ObserveNoSkillAnalyzing(reward, terminal, io) == Observe(reward, terminal, io)

(* ValidityPretrainAgentNoSkill.observe: observe without the call of       *)
(* _compute_action_validity                                                 *)
ObserveNoSkill(reward, terminal, io) ==
    IF reward_buffers = NoArray THEN Raise("observe", "TypeError")
    ELSE IF index >= max_timesteps THEN Raise("observe", "IndexError")
    ELSE
        LET rb1 == [reward_buffers EXCEPT ![index + 1] = Cell(reward, Current)]
            tb1 == [terminal_buffers EXCEPT
                        ![index + 1] = Cell(IF terminal THEN 1 ELSE 0, Current)]
            written == WriteTrace(states_buffers, actions_buffers, tb1, rb1,
                                  episodes + 1, io)
        IN  /\ terminal => episodes < MaxEpisodes
            /\ reward_buffers' = rb1
            /\ terminal_buffers' = tb1
            /\ index' = index + 1
            /\ IF ~terminal
               THEN /\ last' = Outcome("observe", "ok")
                    /\ UNCHANGED <<episodes, record_states, record_actions,
                                   record_terminal, record_reward,
                                   traces_dir_exists, traces>>
               ELSE /\ episodes' = episodes + 1
                    /\ record_states' = written.record_states
                    /\ record_actions' = written.record_actions
                    /\ record_terminal' = written.record_terminal
                    /\ record_reward' = written.record_reward
                    /\ traces_dir_exists' = written.dir
                    /\ traces' = IF written.trace = NoDict THEN traces
                                 ELSE Append(traces, written.trace.name)
                    /\ last' = [Outcome("observe", written.err) EXCEPT
                                    !.terminal = TRUE,
                                    !.trace = written.trace,
                                    !.pre_reward = rb1,
                                    !.pre_actions = actions_buffers]
            /\ UNCHANGED <<other_objects, max_timesteps, agent, states_buffers, actions_buffers>>

(* The calls the environment makes on a ValidityPretrainAgentNoSkill; its   *)
(* act stores what ValidityPretrainAgent.act stores                         *)
NextNoSkill ==
    \/ \E u \in UninitOutcomes : Reset(u)
    \/ \E states \in StateInputs, actions \in PolicyActions : Act(states, actions)
    \/ \E reward \in RewardInputs : ObserveNoSkill(reward, FALSE, "ok")
    \/ \E reward \in RewardInputs : ObserveNoSkill(reward, TRUE, "ok")

SpecNoSkill == Init /\ [][NextNoSkill]_vars

-----------------------------------------------------------------------------
(* The calls the environment makes when the states it passes and the        *)
(* actions env.control_to_actions returns may lack a declared key or hold   *)
(* an undeclared one                                                        *)
KeyStateInputs == {[obs |-> 1], [extra |-> 1], [obs |-> 1, extra |-> 1]}
KeyActionInputs ==
    {[control |-> 2, validity |-> 2], [control |-> 2], [validity |-> 2],
     [control |-> 2, validity |-> 2, extra |-> 2]}

NextKeys ==
    \/ \E u \in UninitOutcomes : Reset(u)
    \/ \E states \in KeyStateInputs, actions \in KeyActionInputs : Act(states, actions)
    \/ \E reward \in RewardInputs : Observe(reward, FALSE, "ok")
    \/ \E reward \in RewardInputs : Observe(reward, TRUE, "ok")

SpecKeys == Init /\ [][NextKeys]_vars

-----------------------------------------------------------------------------
(* PretrainingAgent and PretrainingBehaviourAgent (lines 585-722).  Both    *)
(* wrap a tensorforce agent that owns the buffers; self.index is their own  *)
(* cursor into its action buffers.  Here the variable agent holds the       *)
(* planner reset creates, self.local_planner in PretrainingAgent and        *)
(* self.bh_agent in PretrainingBehaviourAgent, which tells the class; the   *)
(* fields of ValidityPretrainAgent these classes do not have stay None.     *)
Planners == {"LocalPlanner", "BehaviorAgent"}
PretrainingActions == {[control |-> 1, validity |-> 1], [control |-> 2, validity |-> 2]}

InitPretraining ==
    /\ max_timesteps \in 1..MaxTimesteps
    /\ index = 0
    /\ episodes = 0
    /\ agent = NoObject
    /\ terminal_buffers = NoArray
    /\ reward_buffers = NoArray
    /\ states_buffers = NoDict
    /\ actions_buffers =
          [name \in ActionsSpec |-> [k \in 1..max_timesteps |-> Cell(0, Never)]]
    /\ record_states = NoDict
    /\ record_actions = NoDict
    /\ record_terminal = NoDict
    /\ record_reward = NoDict
    /\ traces_dir_exists = FALSE
    /\ traces = <<>>
    /\ last = Outcome("init", "ok")
    /\ control = NoObject
    /\ steer_cache = 0
    /\ decay = NoDict

(* reset: self.index = 0 and a new planner; the buffers are not touched *)
ResetPretraining ==
    /\ index' = 0
    /\ agent' \in (IF agent = NoObject THEN Planners ELSE {agent})
    /\ actions_buffers' = [name \in ActionsSpec |-> Aged(actions_buffers[name])]
    /\ last' = Outcome("reset", "ok")
    /\ UNCHANGED <<other_objects, max_timesteps, episodes, terminal_buffers, reward_buffers,
                   states_buffers, record_states, record_actions, record_terminal,
                   record_reward, traces_dir_exists, traces>>

(* act with "self.index = self.index + 1", the cursor not taken modulo      *)
(* max_timesteps                                                            *)
ActPretrainingNoWrap(actions) ==
    IF agent = NoObject THEN Raise("act", "AttributeError")
    ELSE IF index >= max_timesteps THEN Raise("act", "IndexError")
    ELSE
        /\ actions_buffers' =
              [name \in ActionsSpec |->
                  [actions_buffers[name] EXCEPT ![index + 1] = Cell(actions[name], Current)]]
        /\ index' = index + 1
        /\ last' = [Outcome("act", "ok") EXCEPT !.pre_actions = actions_buffers]
        /\ UNCHANGED <<other_objects, max_timesteps, episodes, agent, terminal_buffers,
                       reward_buffers, states_buffers, record_states, record_actions,
                       record_terminal, record_reward, traces_dir_exists, traces>>

(* act: the planner is None before the first reset and its use raises       *)
(* AttributeError; else the actions are stored at the cursor and the cursor *)
(* advances modulo max_timesteps                                            *)
ActPretraining(actions) ==
    IF agent = NoObject THEN Raise("act", "AttributeError")
    ELSE
        /\ actions_buffers' =
              [name \in ActionsSpec |->
                  [actions_buffers[name] EXCEPT ![index + 1] = Cell(actions[name], Current)]]
        /\ index' = (index + 1) % max_timesteps
        /\ last' = [Outcome("act", "ok") EXCEPT !.pre_actions = actions_buffers]
        /\ UNCHANGED <<other_objects, max_timesteps, episodes, agent, terminal_buffers,
                       reward_buffers, states_buffers, record_states, record_actions,
                       record_terminal, record_reward, traces_dir_exists, traces>>

(* observe: handed to the tensorforce agent; no field of the class changes *)
ObservePretraining ==
    /\ last' = Outcome("observe", "ok")
    /\ UNCHANGED <<other_objects, max_timesteps, index, episodes, agent, terminal_buffers,
                   reward_buffers, states_buffers, actions_buffers, record_states,
                   record_actions, record_terminal, record_reward,
                   traces_dir_exists, traces>>

NextPretraining ==
    \/ ResetPretraining
    \/ \E actions \in PretrainingActions : ActPretraining(actions)
    \/ ObservePretraining

SpecPretraining == InitPretraining /\ [][NextPretraining]_vars

-----------------------------------------------------------------------------
(* KeyboardAgent (lines 917-997).  self.control is a carla.VehicleControl, *)
(* of which gear and reverse matter here; a new one has gear 0 and reverse  *)
(* False.  self._steer_cache is counted in steer increments, MaxSteer of    *)
(* them making the 1.0 it is clamped to.                                    *)
MaxEvents == 2
MaxSteer == 4

(* what pygame.event.get() can return in one poll, and the steering key     *)
(* pygame.key.get_pressed() reports                                         *)
Events == {"QUIT", "KEYUP_ESCAPE", "KEYUP_CTRL_q", "KEYUP_q", "KEYUP_other"}
Polls == UNION {[1..n -> Events] : n \in 0..MaxEvents}
SteerKeys == {"left", "right", "none"}

VehicleControl == [gear |-> 0, reverse |-> FALSE]

(* _is_quit_shortcut, and the QUIT event: the events that call close() *)
Closes(event) == event \in {"QUIT", "KEYUP_ESCAPE", "KEYUP_CTRL_q"}

(* _parse_events, line 952 with the gear taken from the gear, not from the  *)
(* reverse flag                                                             *)
QKeyUpByGear(gear, reverse) == IF gear < 0 THEN 1 ELSE -1

(* _parse_events, line 952: self.control.gear = 1 if self.control.reverse   *)
(* else -1                                                                  *)
QKeyUp(gear, reverse) == IF reverse THEN 1 ELSE -1

(* _parse_events, the loop over the events from event k on: the gear it     *)
(* leaves, whether close() raised, and the Q key-ups it processed           *)
RECURSIVE ParseEvents(_, _, _, _)
ParseEvents(events, k, gear, q_keyups) ==
    IF k > Len(events) THEN [gear |-> gear, closed |-> FALSE, q_keyups |-> q_keyups]
    ELSE IF Closes(events[k]) THEN [gear |-> gear, closed |-> TRUE, q_keyups |-> q_keyups]
    ELSE IF events[k] = "KEYUP_q"
    THEN ParseEvents(events, k + 1, QKeyUp(gear, control.reverse), q_keyups + 1)
    ELSE ParseEvents(events, k + 1, gear, q_keyups)

(* _parse_vehicle_keys, lines 964-978 *)
SteerCache(key) ==
    LET moved == IF key = "left"
                 THEN (IF steer_cache > 0 THEN 0 ELSE steer_cache - 1)
                 ELSE IF key = "right"
                 THEN (IF steer_cache < 0 THEN 0 ELSE steer_cache + 1)
                 ELSE 0
    IN  Min(MaxSteer, Max(-MaxSteer, moved))

(* the outcome of a call on the KeyboardAgent *)
KeyboardOutcome(op, err, q_keyups) == [op |-> op, err |-> err, q_keyups |-> q_keyups]

KeyboardInit ==
    /\ control = VehicleControl
    /\ steer_cache = 0
    /\ decay = NoDict
    /\ max_timesteps = 1
    /\ index = 0
    /\ episodes = 0
    /\ agent = NoObject
    /\ terminal_buffers = NoArray
    /\ reward_buffers = NoArray
    /\ states_buffers = NoDict
    /\ actions_buffers = NoDict
    /\ record_states = NoDict
    /\ record_actions = NoDict
    /\ record_terminal = NoDict
    /\ record_reward = NoDict
    /\ traces_dir_exists = FALSE
    /\ traces = <<>>
    /\ last = KeyboardOutcome("init", "ok", 0)

KeyboardReset ==
    /\ control' = VehicleControl
    /\ steer_cache' = 0
    /\ last' = KeyboardOutcome("reset", "ok", 0)
    /\ UNCHANGED <<recorder_vars, decay>>

(* act: _parse_events, then _parse_vehicle_keys unless close() raised *)
KeyboardAct(events, key) ==
    LET parsed == ParseEvents(events, 1, control.gear, 0)
    IN  /\ IF parsed.closed
           THEN /\ control' = [control EXCEPT !.gear = parsed.gear]
                /\ steer_cache' = steer_cache
                /\ last' = KeyboardOutcome("act", "Exception", parsed.q_keyups)
           ELSE /\ control' = [gear |-> parsed.gear, reverse |-> parsed.gear < 0]
                /\ steer_cache' = SteerCache(key)
                /\ last' = KeyboardOutcome("act", "ok", parsed.q_keyups)
        /\ UNCHANGED <<recorder_vars, decay>>

(* observe: return False *)
KeyboardObserve ==
    /\ last' = KeyboardOutcome("observe", "ok", 0)
    /\ UNCHANGED <<recorder_vars, control, steer_cache, decay>>

KeyboardNext ==
    \/ KeyboardReset
    \/ \E events \in Polls, key \in SteerKeys : KeyboardAct(events, key)
    \/ KeyboardObserve

KeyboardSpec == KeyboardInit /\ [][KeyboardNext]_vars

-----------------------------------------------------------------------------
(* Agents.ppo8 and Agents.ppo9 (lines 358-481), as far as the decay         *)
(* argument goes.  decay maps "lr", "clipping", "entropy" and "noise" to a  *)
(* dictionary of keyword arguments for Specs.exp_decay or                   *)
(* Specs.linear_decay, with the kind of decay under "type", or to None.     *)
DecayNames == <<"lr", "clipping", "entropy", "noise">>

DecaySpecs ==
    {[type |-> "exp", steps |-> 1], [type |-> "linear", steps |-> 1], [steps |-> 1]}

(* decay_x.pop('type', None) == 'exp' selects the exponential decay, any    *)
(* other value, a missing key included, the linear one                      *)
Popped(spec) == IF "type" \in DOMAIN spec THEN spec["type"] ELSE "None"
Selected(spec) == IF Popped(spec) = "exp" THEN "exp" ELSE "linear"

(* the dictionary after pop('type', None) *)
WithoutType(spec) == [key \in DOMAIN spec \ {"type"} |-> spec[key]]

(* lines 370-380: with the exponential decay of the learning rate the call  *)
(* Specs.exp_decay(..., steps=decay_lr['steps'], ..., **decay_lr) passes    *)
(* steps twice, a TypeError, or raises KeyError when decay_lr has no steps  *)
LrRaises(spec) ==
    IF spec = NoDict \/ Selected(spec) # "exp" THEN "ok"
    ELSE IF "steps" \in DOMAIN spec THEN "TypeError" ELSE "KeyError"

(* the outcome of a factory call: the decay it selected for each name it    *)
(* came to, "None" for a name it did not                                    *)
FactoryOutcome(op, err, selected) == [op |-> op, err |-> err, selected |-> selected]

InitFactory ==
    /\ decay \in [{DecayNames[k] : k \in 1..Len(DecayNames)} -> DecaySpecs \cup {NoDict}]
    /\ control = NoObject
    /\ steer_cache = 0
    /\ max_timesteps = 1
    /\ index = 0
    /\ episodes = 0
    /\ agent = NoObject
    /\ terminal_buffers = NoArray
    /\ reward_buffers = NoArray
    /\ states_buffers = NoDict
    /\ actions_buffers = NoDict
    /\ record_states = NoDict
    /\ record_actions = NoDict
    /\ record_terminal = NoDict
    /\ record_reward = NoDict
    /\ traces_dir_exists = FALSE
    /\ traces = <<>>
    /\ last = FactoryOutcome("init", "ok", [name \in DOMAIN decay |-> "None"])

(* ppo8 and ppo9, lines 363-406 and 434-481: the four decays in the order   *)
(* lr, clipping, entropy, noise; an error in the first ends the call        *)
Ppo(op) ==
    LET lr == LrRaises(decay["lr"])
        reached(name) == lr = "ok" \/ name = "lr"
    IN  /\ decay' = [name \in DOMAIN decay |->
                         IF reached(name) /\ decay[name] # NoDict
                         THEN WithoutType(decay[name]) ELSE decay[name]]
        /\ last' = FactoryOutcome(op, lr,
                       [name \in DOMAIN decay |->
                           IF reached(name) /\ decay[name] # NoDict
                           THEN Selected(decay[name]) ELSE "None"])
        /\ UNCHANGED <<recorder_vars, control, steer_cache>>

Factories == {"ppo8", "ppo9"}

NextFactory == \E op \in Factories : Ppo(op)

SpecFactory == InitFactory /\ [][NextFactory]_vars

-----------------------------------------------------------------------------
(* One recorded episode about to end: reset() found zeroed memory, every    *)
(* tick but the last was acted and observed, the last was acted.  The       *)
(* terminal observe then runs _compute_action_validity on it.               *)
EpisodeControls == {1, 2}
EpisodeRewards(k) == {k, 20}

InitEpisode ==
    /\ max_timesteps \in 1..MaxLen
    /\ index = max_timesteps - 1
    /\ episodes = 0
    /\ agent = "BehaviorAgent"
    /\ terminal_buffers =
          [k \in 1..max_timesteps |->
              IF k < max_timesteps THEN Cell(0, Current) ELSE Cell(0, Never)]
    /\ \E rewards \in [1..(max_timesteps - 1) -> {"ramp", "high"}] :
          reward_buffers =
              [k \in 1..max_timesteps |->
                  IF k = max_timesteps THEN Cell(0, Never)
                  ELSE Cell(IF rewards[k] = "ramp" THEN k ELSE 20, Current)]
    /\ states_buffers = [name \in StatesSpec |-> [k \in 1..max_timesteps |-> Cell(1, Current)]]
    /\ \E controls \in [1..max_timesteps -> EpisodeControls] :
          actions_buffers =
              [name \in ActionsSpec |->
                  [k \in 1..max_timesteps |->
                      Cell(IF name = "control" THEN controls[k] ELSE 2, Current)]]
    /\ record_states = [name \in StatesSpec |-> EmptyList]
    /\ record_actions = [name \in ActionsSpec |-> EmptyList]
    /\ record_terminal = EmptyList
    /\ record_reward = EmptyList
    /\ traces_dir_exists = FALSE
    /\ traces = <<>>
    /\ last = Outcome("act", "ok")
    /\ control = NoObject
    /\ steer_cache = 0
    /\ decay = NoDict

NextEpisode ==
    \E reward \in EpisodeRewards(max_timesteps) : Observe(reward, TRUE, "ok")

SpecEpisode == InitEpisode /\ [][NextEpisode]_vars

-----------------------------------------------------------------------------
(* Runs of equal consecutive control values, read off the control buffer    *)
(* (timesteps are numbered from 0, as in the code)                          *)
Control == actions_buffers["control"]
Validity == actions_buffers["validity"]
Steps == 0..(max_timesteps - 1)

SameControl(j) == Control[j + 1].v = Control[j + 2].v

(* the last timestep of the run that holds timestep i *)
RunEnd(i) ==
    CHOOSE e \in i..(max_timesteps - 1) :
        /\ \A j \in i..(e - 1) : SameControl(j)
        /\ e = max_timesteps - 1 \/ ~SameControl(e)

(* the first timestep of the run that holds timestep i *)
RunStart(i) ==
    CHOOSE b \in 0..i :
        /\ \A j \in b..(i - 1) : SameControl(j)
        /\ b = 0 \/ ~SameControl(b - 1)

(* the values of buffer[0, a:b] *)
ValuesBetween(buffer, a, b) == Values(SubSeq(buffer, a + 1, b))

(* a terminal observe has just run _compute_action_validity *)
Analyzed == last.op = "observe" /\ last.analyzed

(* C2: after the analysis validity[i] is, for every timestep i, the number  *)
(* of timesteps from i to the end of its run of equal control values.       *)
C2_ValidityIsRemainingRun ==
    Analyzed => \A i \in Steps : Validity[i + 1].v = RunEnd(i) - i + 1

(* C3: after the analysis, for every run that ends in a control mismatch,   *)
(* the reward slots the analysis designates for rewriting, from the start   *)
(* of the run up to but excluding its last timestep, all hold the same      *)
(* scalar: the aggregate of the rewards those timesteps had before the      *)
(* analysis.                                                                *)
C3_RunHoldsAggregate ==
    Analyzed =>
        \A b \in Steps :
            LET e == RunEnd(b)
            IN  (RunStart(b) = b /\ e < max_timesteps - 1) =>
                    \A k \in b..(e - 1) :
                        reward_buffers[k + 1].v =
                            aggregate_reward(ValuesBetween(last.pre_reward, b, e))

(* C4: scenario A: with T = 5, control [1,1,1,2,2] and rewards [1,2,3,4,5]  *)
(* the analysis leaves rewards [3,3,3,4,5] and validity 3, 2, 1 at          *)
(* timesteps 0, 1, 2.                                                       *)
ScenarioA ==
    /\ Analyzed
    /\ max_timesteps = 5
    /\ Values(Control) = <<1, 1, 1, 2, 2>>
    /\ Values(last.pre_reward) = <<1, 2, 3, 4, 5>>

C4_ScenarioA ==
    ScenarioA =>
        /\ Values(reward_buffers) = <<3, 3, 3, 4, 5>>
        /\ ValuesBetween(Validity, 0, 3) = <<3, 2, 1>>

(* C9: the analysis leaves the rewards of the final run, the run that       *)
(* reaches the last timestep, as they were; with one control value          *)
(* throughout that is every reward of the episode.                          *)
C9_FinalRunKept ==
    Analyzed =>
        \A k \in RunStart(max_timesteps - 1)..(max_timesteps - 1) :
            reward_buffers[k + 1] = last.pre_reward[k + 1]

C9_Witness ==
    /\ Analyzed
    /\ max_timesteps >= 3
    /\ RunStart(max_timesteps - 1) = 0
    /\ \E k \in Steps : last.pre_reward[k + 1].v # last.pre_reward[1].v

-----------------------------------------------------------------------------
(* The controller's state, read off the fields: it is idle before the first *)
(* reset and from a terminal observe to the next reset, recording otherwise *)
Idle == agent = NoObject \/ (index > 0 /\ terminal_buffers[index].v = 1)

Buffers == <<terminal_buffers, reward_buffers, states_buffers, actions_buffers>>
Records == <<record_states, record_actions, record_terminal, record_reward>>

Called(ops) == last'.op \in ops

(* the cells of a trace file *)
TraceCells(trace) ==
    {trace.reward[k] : k \in DOMAIN trace.reward}
        \cup {trace.terminal[k] : k \in DOMAIN trace.terminal}
        \cup UNION {{trace.states[name][k] : k \in DOMAIN trace.states[name]} :
                        name \in StatesSpec}
        \cup UNION {{trace.actions[name][k] : k \in DOMAIN trace.actions[name]} :
                        name \in ActionsSpec}

(* C1: a terminal observe that returns persists the episode exactly when    *)
(* the sum of the rewards observed in the episode is at least               *)
(* reward_threshold times their number.                                     *)
C1_GateOnEpisodeRewards ==
    (last.op = "observe" /\ last.terminal /\ last.err = "ok") =>
        (last.trace # NoDict <=>
            SumSeq(ValuesBetween(last.pre_reward, 0, index)) >= reward_threshold * index)

C6_ResetDiscards ==
    /\ last.op = "reset" =>
          last.err = "ok" /\ index = 0 /\ ~Idle /\ last.trace = NoDict
    /\ last.trace # NoDict => \A cell \in TraceCells(last.trace) : cell.g # Old

(* C7: act leaves the cursor alone and stores the state and the action at   *)
(* the cursor; an observe that succeeds stores reward and terminal at the   *)
(* cursor and advances it by one; no other call but reset moves the cursor, *)
(* so that the cursor counts the successful observes since the last reset.  *)
C7_CursorCountsObserves ==
    [][/\ Called({"act"}) =>
              /\ index' = index
              /\ last'.err = "ok" =>
                     \A name \in ActionsSpec : actions_buffers'[name][index + 1].g = Current
       /\ Called({"observe"}) =>
              IF last'.err = "ok"
              THEN /\ index' = index + 1
                   /\ reward_buffers'[index + 1].g = Current
                   /\ terminal_buffers'[index + 1].g = Current
              ELSE index' = index]_vars

C10_SecondEpisodeAppended ==
    [][(/\ Called({"observe"}) /\ last'.terminal
        /\ record_reward.kind = "array"
        /\ GateOutcome(record_reward) = "accept"
        /\ \A k \in 1..index' : reward_buffers'[k].v >= reward_threshold
        /\ last'.err # "OSError")
       => /\ last'.err = "ok"
          /\ last'.trace # NoDict
          /\ SubSeq(last'.trace.reward, 1, Len(record_reward.data)) = record_reward.data
          /\ Len(last'.trace.reward) = Len(record_reward.data) + max_timesteps]_vars

-----------------------------------------------------------------------------
(* the components of a trace file, each an array along the time axis *)
TraceComponents(trace) ==
    {trace.reward, trace.terminal}
        \cup {trace.states[name] : name \in StatesSpec}
        \cup {trace.actions[name] : name \in ActionsSpec}

(* C11: the trace of an accepted episode holds, for every state component,  *)
(* every action component, rewards and terminals, as many timesteps as were *)
(* observed in the episode: the cursor at the end of the terminal observe.  *)
C11_TraceHoldsObservedSteps ==
    last.trace # NoDict =>
        \A component \in TraceComponents(last.trace) : Len(component) = index

(* the timesteps a record holds, whether it is a list of arrays or an array *)
RecordData(record) ==
    IF record.kind = "array" THEN record.data ELSE Concatenate(record.items)

(* C12: when the trace cannot be written the records still hold every       *)
(* timestep of the episode just accepted, and the next terminal observe     *)
(* that finds room in the buffers does not fail in write_trace for any      *)
(* reason but the file system; a trace it writes starts with the timesteps  *)
(* retained.                                                                *)
C12_FailedFlushRetains ==
    [][/\ last'.err = "OSError" =>
              /\ RecordData(record_reward') = RecordData(record_reward) \o reward_buffers'
              /\ RecordData(record_terminal') = RecordData(record_terminal) \o terminal_buffers'
       /\ (/\ last.err = "OSError"
           /\ index < max_timesteps
           /\ Called({"observe"}) /\ last'.terminal) =>
              /\ last'.err \in {"ok", "OSError"}
              /\ last'.trace # NoDict =>
                     SubSeq(last'.trace.reward, 1, Len(RecordData(record_reward)))
                         = RecordData(record_reward)]_vars

(* C13: once the cursor has reached max_timesteps a further act or observe  *)
(* fails with IndexError and leaves the buffers, the cursor, the episode    *)
(* counter, the records and the files as they were.                         *)
C13_FullBufferRejects ==
    [][(agent # NoObject /\ index >= max_timesteps /\ Called({"act", "observe"})) =>
           /\ last'.err = "IndexError"
           /\ UNCHANGED <<Buffers, Records, index, episodes, traces>>]_vars

C13_Witness ==
    /\ last.err = "IndexError"
    /\ last.op = "observe"
    /\ max_timesteps >= 2
    /\ index = max_timesteps
    /\ \A k \in 1..max_timesteps : terminal_buffers[k] = Cell(0, Current)

(* the arrays reset allocates *)
BufferArrays ==
    {terminal_buffers, reward_buffers}
        \cup {states_buffers[name] : name \in StatesSpec}
        \cup {actions_buffers[name] : name \in ActionsSpec}

(* C14: in every state after a reset each state buffer, each action buffer, *)
(* the reward buffer and the terminal buffer have max_timesteps slots.      *)
C14_BuffersHoldTSlots ==
    agent # NoObject => \A buffer \in BufferArrays : Len(buffer) = max_timesteps

C14_Witness ==
    /\ last.op = "observe" /\ last.analyzed /\ last.trace # NoDict
    /\ index = max_timesteps
    /\ max_timesteps >= 2

(* the timesteps of the run that holds timestep i *)
Run(i) == RunStart(i)..RunEnd(i)

(* C15: the runs of equal consecutive control values partition the          *)
(* timesteps 0..T-1: every timestep lies in its run, and two runs are the   *)
(* same or disjoint; and after the analysis i + validity[i] - 1 is the last *)
(* timestep of the run that holds i.                                        *)
C15_ValidityFollowsPartition ==
    Analyzed =>
        /\ \A i \in Steps : i \in Run(i)
        /\ \A i, j \in Steps : Run(i) = Run(j) \/ Run(i) \cap Run(j) = {}
        /\ \A i \in Steps : i + Validity[i + 1].v - 1 = RunEnd(i)

(* write_trace as the step from the unprimed to the primed state ran it *)
Written == WriteTrace(states_buffers', actions_buffers', terminal_buffers',
                      reward_buffers', episodes', "ok")

(* C16: in ValidityPretrainAgentNoSkill an observe that stores leaves every *)
(* reward slot but the one at the cursor and every action slot as recorded, *)
(* advances the cursor by one, counts the episode on terminal, and on       *)
(* terminal decides by the gate of write_trace and leaves the records and   *)
(* the trace as write_trace does on the buffers as recorded.                *)
C16_NoSkillKeepsRecorded ==
    [][(Called({"observe"}) /\ last'.err \notin {"TypeError", "IndexError"}) =>
           /\ index' = index + 1
           /\ episodes' = episodes + (IF last'.terminal THEN 1 ELSE 0)
           /\ actions_buffers' = actions_buffers
           /\ states_buffers' = states_buffers
           /\ \A k \in 1..max_timesteps :
                  k # index + 1 => /\ reward_buffers'[k] = reward_buffers[k]
                                   /\ terminal_buffers'[k] = terminal_buffers[k]
           /\ reward_buffers'[index + 1].g = Current
           /\ terminal_buffers'[index + 1] = Cell(IF last'.terminal THEN 1 ELSE 0, Current)
           /\ ~last'.terminal => UNCHANGED <<Records, traces>>
           /\ last'.terminal =>
                  /\ last'.err = Written.err
                  /\ last'.trace = Written.trace
                  /\ (last'.err = "ok" =>
                         (last'.trace # NoDict <=> GateOutcome(record_reward) = "accept"))
                  /\ record_states' = Written.record_states
                  /\ record_actions' = Written.record_actions
                  /\ record_terminal' = Written.record_terminal
                  /\ record_reward' = Written.record_reward]_vars

C16_Witness ==
    /\ last.op = "observe" /\ last.terminal /\ last.trace # NoDict
    /\ index = 2
    /\ last.trace.actions["validity"] = <<Cell(2, Current), Cell(2, Current)>>
    /\ actions_buffers["validity"] = <<Cell(2, Current), Cell(2, Current)>>

(* the mapping holds the declared keys and no other *)
ExactKeys(declared, mapping) == DOMAIN mapping = declared

(* C17: act fails whenever the states or the actions do not hold exactly    *)
(* the declared keys, a declared key missing or an undeclared key present,  *)
(* and such a call stores nothing.                                          *)
C17_KeyMismatchRejected ==
    [][\A states \in KeyStateInputs, actions \in KeyActionInputs :
           (/\ agent # NoObject /\ index < max_timesteps
            /\ ~(ExactKeys(StatesSpec, states) /\ ExactKeys(ActionsSpec, actions))
            /\ Act(states, actions)) =>
               (last'.err # "ok" /\ UNCHANGED Buffers)]_vars

(* C18: a trace is written only by an observe with terminal = TRUE, and     *)
(* only by the first such observe since the last reset, so that no cycle    *)
(* from reset to reset writes more than one trace.                          *)
C18_OneTracePerEpisode ==
    [][(traces' # traces \/ last'.trace # NoDict) =>
           /\ Called({"observe"}) /\ last'.terminal
           /\ Len(traces') = Len(traces) + 1
           /\ \A k \in 1..index : terminal_buffers[k] = Cell(0, Current)]_vars

C18_Witness ==
    /\ last.op = "observe" /\ last.terminal /\ last.trace = NoDict
    /\ index = 2
    /\ terminal_buffers[1] = Cell(1, Current)
    /\ Len(traces) = 1

(* the cells of the buffers *)
BufferCells == UNION {{buffer[k] : k \in DOMAIN buffer} : buffer \in BufferArrays}

(* C19: right after reset every slot of every buffer holds zero, and a slot *)
(* of a trace that the episode did not write holds zero.                    *)
C19_ResetZeroes ==
    /\ last.op = "reset" => \A cell \in BufferCells : cell.v = 0
    /\ last.trace # NoDict =>
          \A cell \in TraceCells(last.trace) : cell.g # Current => cell.v = 0

(* a terminal observe stores and the gate of write_trace rejects *)
Rejected ==
    /\ Called({"observe"}) /\ last'.terminal /\ last'.err = "ok"
    /\ GateOutcome(record_reward) = "reject"

(* what a rejecting terminal observe leaves alone and what it changes *)
RejectedFrame ==
    /\ last'.trace = NoDict
    /\ UNCHANGED <<Records, traces, traces_dir_exists, states_buffers, agent>>
    /\ index' = index + 1
    /\ episodes' = episodes + 1
    /\ \A k \in 1..max_timesteps :
           k # index + 1 => /\ reward_buffers'[k] = reward_buffers[k]
                            /\ terminal_buffers'[k] = terminal_buffers[k]

(* C20: when the gate rejects at a terminal observe no file is written, the *)
(* records are what they were, and only the reward and terminal slot at the *)
(* cursor, the cursor and the episode counter have changed.                 *)
C20_RejectChangesOnlySlot ==
    [][Rejected => (RejectedFrame /\ UNCHANGED actions_buffers)]_vars

C20_Witness ==
    /\ last.op = "observe" /\ last.terminal /\ last.err = "ok"
    /\ last.trace = NoDict
    /\ record_reward.kind = "array"
    /\ GateOutcome(record_reward) = "reject"
    /\ index = 2
    /\ actions_buffers["validity"][2] = Cell(2, Current)

(* C21: a terminal observe, analysis included, changes no control value, no *)
(* state, no terminal flag but the one it stores, and moves the cursor by   *)
(* the one step of the observe; the analysis changes a reward only in a     *)
(* run that ends in a mismatch and only before the last timestep of that    *)
(* run.                                                                     *)
C21_AnalysisFrame ==
    [][(Called({"observe"}) /\ last'.analyzed) =>
           /\ actions_buffers'["control"] = actions_buffers["control"]
           /\ states_buffers' = states_buffers
           /\ terminal_buffers' =
                  [terminal_buffers EXCEPT ![index + 1] = Cell(1, Current)]
           /\ index' = index + 1
           /\ \A k \in Steps :
                  reward_buffers'[k + 1] # last'.pre_reward[k + 1] =>
                      (RunEnd(k) < max_timesteps - 1 /\ k < RunEnd(k))]_vars

C21_Witness ==
    /\ Analyzed
    /\ max_timesteps >= 3
    /\ RunEnd(0) >= 1
    /\ RunEnd(0) < max_timesteps - 1

(* C22: the episode counter starts at 0; every terminal observe that stores *)
(* adds one to it, whether or not a trace is written, and no other call     *)
(* changes it, reset included; a trace is named by the counter, and the     *)
(* names of the traces written grow strictly.                               *)
C22_EpisodesCountTerminals ==
    /\ episodes = 0
    /\ [][/\ (Called({"observe"}) /\ last'.terminal) => episodes' = episodes + 1
          /\ ~(Called({"observe"}) /\ last'.terminal) => episodes' = episodes
          /\ traces' # traces =>
                 /\ traces' = Append(traces, episodes')
                 /\ \A k \in DOMAIN traces : traces[k] < episodes']_vars

C22_Witness ==
    /\ episodes = 2
    /\ last.op = "reset"
    /\ Len(traces) = 1

(* C23: in PretrainingAgent and PretrainingBehaviourAgent the cursor starts *)
(* at 0 and stays within 0..max_timesteps-1; reset sets it to 0; an act     *)
(* that succeeds stores at the cursor, a slot of the buffer, and advances   *)
(* the cursor to (index + 1) mod max_timesteps, so that after max_timesteps *)
(* acts it is 0 again and the next act overwrites the first action of the   *)
(* episode; observe leaves it alone.                                        *)
C23_CursorWraps ==
    /\ index = 0
    /\ [][/\ 0 <= index' /\ index' < max_timesteps
          /\ Called({"reset"}) => index' = 0
          /\ Called({"observe"}) => UNCHANGED <<index, actions_buffers>>
          /\ (Called({"act"}) /\ last'.err = "ok") =>
                 /\ index' = (index + 1) % max_timesteps
                 /\ \A name \in ActionsSpec :
                        /\ index + 1 \in DOMAIN actions_buffers[name]
                        /\ actions_buffers'[name][index + 1].g = Current
                        /\ \A k \in DOMAIN actions_buffers[name] :
                               k # index + 1 =>
                                   actions_buffers'[name][k] = actions_buffers[name][k]
          /\ (Called({"act"}) /\ last'.err # "ok") =>
                 UNCHANGED <<index, actions_buffers>>]_vars

C23_Witness ==
    /\ last.op = "act" /\ last.err = "ok"
    /\ max_timesteps >= 2
    /\ index = 1
    /\ \A k \in 1..max_timesteps : last.pre_actions["control"][k].g = Current
    /\ actions_buffers["control"][1].v # last.pre_actions["control"][1].v

(* C24: after every act reverse is true iff gear < 0; reverse changes only  *)
(* in an act that processes a Q key-up, and in such an act it ends as the   *)
(* negation of what it was, however many Q key-ups the poll held; reset     *)
(* sets it to false.                                                        *)
C24_ReverseFollowsQ ==
    [][/\ Called({"act"}) => (control'.reverse <=> control'.gear < 0)
       /\ (Called({"act"}) /\ last'.q_keyups >= 1) => control'.reverse = ~control.reverse
       /\ (Called({"act"}) /\ last'.q_keyups = 0) => control'.reverse = control.reverse
       /\ Called({"observe"}) => control'.reverse = control.reverse
       /\ Called({"reset"}) => control'.reverse = FALSE]_vars

(* C24, amended: the above for the acts that return; an act that raises at  *)
(* a quit event leaves reverse as it was, with the gear the Q key-ups       *)
(* before the quit event gave it, and an act that processes no Q key-up     *)
(* sets reverse to gear < 0, which changes it exactly after such a raise.   *)
C24_ReverseFollowsQOnReturn ==
    [][/\ (Called({"act"}) /\ last'.err = "ok") =>
              /\ control'.reverse <=> control'.gear < 0
              /\ last'.q_keyups >= 1 => control'.reverse = ~control.reverse
              /\ last'.q_keyups = 0 => control'.reverse = (control.gear < 0)
       /\ (Called({"act"}) /\ last'.err # "ok") =>
              /\ control'.reverse = control.reverse
              /\ last'.q_keyups >= 1 => control'.gear = QKeyUp(control.gear, control.reverse)
       /\ Called({"observe"}) => control' = control
       /\ Called({"reset"}) => control' = VehicleControl]_vars

C24_Witness ==
    /\ last.op = "act" /\ last.err = "ok"
    /\ last.q_keyups = 2
    /\ control = [gear |-> 1, reverse |-> FALSE]

(* C25: ppo8 and ppo9 leave the caller's decay dictionary and the           *)
(* dictionaries in it as they were, and of two successive calls with the    *)
(* same decay the second selects for lr, clipping, entropy and noise the    *)
(* kind of decay the first selected.                                        *)
C25_FactoriesKeepDecay ==
    [][Called(Factories) =>
           /\ decay' = decay
           /\ last.op \in Factories => last'.selected = last.selected]_vars

====
